---- MODULE Spec2Model ----
(***************************************************************************)
(* A model of the vocabulary-drill service of src/main.py: the dataset     *)
(* loader (load_vocab, on_startup), the known-pairs store (load_known,     *)
(* save_known) and the request handlers test, mark_known and reset_known.  *)
(*                                                                         *)
(* Strings are TLA+ strings, read character by character with SubSeq.      *)
(* JSON values are tagged records: a string, a number, null, a list, a     *)
(* dict.  A file of the words directory is what parse_json_relaxed makes   *)
(* of it: a JSON value, or an exception.                                   *)
(***************************************************************************)
EXTENDS Integers, Sequences, FiniteSets, TLC

VARIABLES
    phase,      \* "boot" before on_startup has run, "running" after
    words,      \* the words directory: file name -> what reading and parsing it gives
    knownFile,  \* known_words.json: "absent", "corrupt", or the list of its items
    files,      \* the local `files` of load_vocab, as on_startup's call computed it
    VOCAB,      \* the module global VOCAB
    KNOWN,      \* the module global KNOWN
    pending,    \* mark_known / reset_known requests received and not yet handled
    resp,       \* the request handled last, and its response
    marked,     \* pairs whose mark_known succeeded since the last reset_known
    everMarked, \* pairs whose mark_known ever succeeded
    overlap     \* pairs whose mark_known was in flight while another pair's ran

vars == <<phase, words, knownFile, files, VOCAB, KNOWN, pending, resp,
          marked, everMarked, overlap>>

-----------------------------------------------------------------------------
(* Bounds of the model.                                                    *)

MaxFiles == 3
MaxExcludeLen == 3
MaxInflight == 2

-----------------------------------------------------------------------------
(* Strings.                                                                *)

Char(s, i) == SubSeq(s, i, i)

\* The characters the model's strings use, in code point order.  "~" stands
\* for the lone surrogate U+D800, a character of a Python str that UTF-8
\* cannot encode and that sorts after every other character used here.
CodeOrder == " ,-.0123456789_abcdefghijklmnopqrstuvwxyz~"

SurrogateChar == "~"

\* ord(c), up to the order it gives
CodeTable ==
    [c \in {Char(CodeOrder, i) : i \in 1..Len(CodeOrder)} |->
        CHOOSE i \in 1..Len(CodeOrder) : Char(CodeOrder, i) = c]

Code(c) == CodeTable[c]

IsSpace(c) == c = " "

IsDigit(c) == c \in {"0", "1", "2", "3", "4", "5", "6", "7", "8", "9"}

DigitVal(c) == Code(c) - Code("0")

RECURSIVE lstrip(_)
lstrip(s) ==
    IF Len(s) > 0 /\ IsSpace(Char(s, 1)) THEN lstrip(Tail(s)) ELSE s

RECURSIVE rstrip(_)
rstrip(s) ==
    IF Len(s) > 0 /\ IsSpace(Char(s, Len(s)))
    THEN rstrip(SubSeq(s, 1, Len(s) - 1))
    ELSE s

\* str.strip()
strip(s) == rstrip(lstrip(s))

\* str < str: by code point, a proper prefix first
RECURSIVE StrLess(_, _)
StrLess(a, b) ==
    IF Len(b) = 0 THEN FALSE
    ELSE IF Len(a) = 0 THEN TRUE
    ELSE IF Char(a, 1) = Char(b, 1) THEN StrLess(Tail(a), Tail(b))
    ELSE Code(Char(a, 1)) < Code(Char(b, 1))

\* str.endswith(suffix)
endswith(s, suffix) ==
    /\ Len(s) >= Len(suffix)
    /\ SubSeq(s, Len(s) - Len(suffix) + 1, Len(s)) = suffix

\* the value of a string of decimal digits
RECURSIVE DigitsValue(_)
DigitsValue(s) ==
    IF Len(s) = 0 THEN 0
    ELSE 10 * DigitsValue(SubSeq(s, 1, Len(s) - 1)) + DigitVal(Char(s, Len(s)))

AllDigits(s) == Len(s) > 0 /\ \A i \in 1..Len(s) : IsDigit(Char(s, i))

\* the longest run of digits that s starts with
RECURSIVE DigitPrefix(_)
DigitPrefix(s) ==
    IF Len(s) > 0 /\ IsDigit(Char(s, 1))
    THEN Char(s, 1) \o DigitPrefix(Tail(s))
    ELSE ""

\* re.search(r"(\d+)", name): the first run of digits, "" when there is none
RECURSIVE FirstDigits(_)
FirstDigits(name) ==
    IF Len(name) = 0 THEN ""
    ELSE IF IsDigit(Head(name)) THEN DigitPrefix(name)
    ELSE FirstDigits(Tail(name))

Range(f) == {f[i] : i \in DOMAIN f}

-----------------------------------------------------------------------------
(* JSON values.                                                            *)

JStr(s) == [t |-> "str", s |-> s]
JNum(n) == [t |-> "num", n |-> n]
JNull == [t |-> "null"]
JList(items) == [t |-> "list", items |-> items]
JDict(kv) == [t |-> "dict", kv |-> kv]

\* Python's truth value of a JSON value, as `x or y` tests it
Truthy(v) ==
    CASE v.t = "str" -> v.s # ""
      [] v.t = "num" -> v.n # 0
      [] v.t = "null" -> FALSE
      [] v.t = "list" -> Len(v.items) > 0
      [] v.t = "dict" -> DOMAIN v.kv # {}

\* dict.get(key): None when the key is absent
Get(d, key) == IF key \in DOMAIN d.kv THEN d.kv[key] ELSE JNull

\* a or b
Or(a, b) == IF Truthy(a) THEN a ELSE b

\* (v).strip(): an AttributeError unless v is a str
CanStrip(v) == v.t = "str"

Stripped(v) == strip(v.s)

-----------------------------------------------------------------------------
(* load_vocab: the files it reads.                                         *)

\* file_key(name): (int(m.group(1)) if m else float('inf'), name)
file_key(name) ==
    LET digits == FirstDigits(name)
    IN  [inf |-> digits = "",
         n |-> IF digits = "" THEN 0 ELSE DigitsValue(digits),
         name |-> name]

\* ka[0] < kb[0]: float('inf') is above every int
number_less(ka, kb) ==
    IF ka.inf THEN FALSE
    ELSE IF kb.inf THEN TRUE
    ELSE ka.n < kb.n

number_equal(ka, kb) ==
    IF ka.inf \/ kb.inf THEN ka.inf /\ kb.inf
    ELSE ka.n = kb.n

\* key_less on the file names alone
key_less_by_name(ka, kb) == StrLess(ka.name, kb.name)

\* ka < kb, as Python compares the tuples (number, name)
key_less(ka, kb) ==
    \/ number_less(ka, kb)
    \/ number_equal(ka, kb) /\ StrLess(ka.name, kb.name)

-----------------------------------------------------------------------------
(* load_vocab: one record.                                                 *)

\* is_latin with the test on the file name left out
is_latin_by_fields(fname, it) ==
    \/ "lemma" \in DOMAIN it.kv
    \/ "translation_de" \in DOMAIN it.kv

\* `fname == 'latin.json' or 'lemma' in it or 'translation_de' in it`
is_latin(fname, it) ==
    \/ fname = "latin.json"
    \/ "lemma" \in DOMAIN it.kv
    \/ "translation_de" \in DOMAIN it.kv

\* it.get("fr") or it.get("french") or it.get("fr_word") or ""
fr_of(it) == Or(Get(it, "fr"), Or(Get(it, "french"), Or(Get(it, "fr_word"), JStr(""))))

\* it.get("de") or it.get("german") or it.get("de_word") or ""
de_of(it) == Or(Get(it, "de"), Or(Get(it, "german"), Or(Get(it, "de_word"), JStr(""))))

\* it.get("pron") or it.get("pronunciation") or ""
pron_of(it) == Or(Get(it, "pron"), Or(Get(it, "pronunciation"), JStr("")))

\* it.get(key) or ""
field_of(it, key) == Or(Get(it, key), JStr(""))

\* it.get("declension_example") or {}
ex_of(it) == Or(Get(it, "declension_example"), JDict(<<>>))

\* (ex.get(key) or "") if isinstance(ex, dict), "" otherwise
ex_field(ex, key) == IF ex.t = "dict" THEN field_of(ex, key) ELSE JStr("")

NoEntry == [raised |-> FALSE, out |-> <<>>]
Raised == [raised |-> TRUE, out |-> <<>>]

\* the Latin branch of the loop body
latin_record(it) ==
    LET la == field_of(it, "lemma")
        de == field_of(it, "translation_de")
        pos == field_of(it, "pos")
        pp == field_of(it, "principal_parts")
        ex == ex_of(it)
        ex_la == ex_field(ex, "la")
        ex_de == ex_field(ex, "de")
    IN  IF \E v \in {la, de, pos, pp, ex_la, ex_de} : ~CanStrip(v) THEN Raised
        ELSE IF Stripped(la) # "" /\ Stripped(de) # ""
        THEN [raised |-> FALSE,
              out |-> << [fr |-> Stripped(la), de |-> Stripped(de), pron |-> "",
                          pos |-> Stripped(pos), pp |-> Stripped(pp),
                          ex_la |-> Stripped(ex_la), ex_de |-> Stripped(ex_de),
                          dataset |-> "latin"] >>]
        ELSE NoEntry

\* the FR-DE branch of the loop body
frde_record(it) ==
    LET fr == fr_of(it)
        de == de_of(it)
        pron == pron_of(it)
    IN  IF \E v \in {fr, de, pron} : ~CanStrip(v) THEN Raised
        ELSE IF Stripped(fr) # "" /\ Stripped(de) # ""
        THEN [raised |-> FALSE,
              out |-> << [fr |-> Stripped(fr), de |-> Stripped(de),
                          pron |-> Stripped(pron), dataset |-> "frde"] >>]
        ELSE NoEntry

\* One pass of `for it in items`: the entry appended, if any, and whether an
\* exception left the loop.  An item that is no dict raises: at `'lemma' in it`
\* (a number, null) or at `it.get` (a string, a list).
normalise(fname, it) ==
    IF it.t # "dict" THEN Raised
    ELSE IF is_latin(fname, it) THEN latin_record(it)
    ELSE frde_record(it)

-----------------------------------------------------------------------------
(* load_vocab: one file, and all of them.                                  *)

\* `for it in items`, until the list ends or an item raises
RECURSIVE load_items(_, _)
load_items(fname, items) ==
    IF Len(items) = 0 THEN <<>>
    ELSE LET r == normalise(fname, Head(items))
         IN  IF r.raised THEN <<>>
             ELSE r.out \o load_items(fname, Tail(items))

\* The body of `for fname in files`: what the file adds to `result`.  A file
\* that cannot be read or parsed raises before anything is appended; a value
\* that is no list adds nothing.
load_file(fname, content) ==
    IF ~content.ok THEN <<>>
    ELSE IF content.v.t # "list" THEN <<>>
    ELSE load_items(fname, content.v.items)

-----------------------------------------------------------------------------
(* The known-pairs store.                                                  *)

FileAbsent == [t |-> "absent"]
FileCorrupt == [t |-> "corrupt"]
FileItems(items) == [t |-> "items", items |-> items]

\* The loop of load_known over the items of the file: the pairs added, or an
\* exception (an item that is no dict has no .get).
RECURSIVE known_items(_)
known_items(items) ==
    IF Len(items) = 0 THEN [raised |-> FALSE, set |-> {}]
    ELSE LET it == Head(items)
             rest == known_items(Tail(items))
         IN  IF it.t # "dict" \/ rest.raised THEN [raised |-> TRUE, set |-> {}]
             ELSE LET fr == Get(it, "fr")
                      de == Get(it, "de")
                  IN  IF fr.t = "str" /\ de.t = "str"
                      THEN [raised |-> FALSE, set |-> rest.set \cup {<<fr.s, de.s>>}]
                      ELSE rest

\* load_known(): the set it returns
load_known(file) ==
    CASE file.t = "absent" -> {}
      [] file.t = "corrupt" -> {}
      [] file.t = "items" ->
            LET r == known_items(file.items) IN IF r.raised THEN {} ELSE r.set

\* load_known(): the file it leaves (it creates a missing file as [])
file_after_load(file) == IF file.t = "absent" THEN FileItems(<<>>) ELSE file

\* (fr, de) < (fr2, de2), as Python compares tuples of str
pair_less(p, q) ==
    \/ StrLess(p[1], q[1])
    \/ p[1] = q[1] /\ StrLess(p[2], q[2])

\* sorted(list(known))
RECURSIVE sorted_pairs(_)
sorted_pairs(known) ==
    IF known = {} THEN <<>>
    ELSE LET least == CHOOSE p \in known : \A q \in known \ {p} : pair_less(p, q)
         IN  <<least>> \o sorted_pairs(known \ {least})

\* whether the text file, opened with encoding="utf-8", can take the string
Utf8Encodable(str) == \A i \in 1..Len(str) : Char(str, i) # SurrogateChar

\* whether save_known(known) runs to its end; it raises UnicodeEncodeError at
\* the first string that UTF-8 cannot encode
save_succeeds(known) == \A p \in known : Utf8Encodable(p[1]) /\ Utf8Encodable(p[2])

\* data = [{"fr": fr, "de": de} for fr, de in sorted(list(known))]
known_data(known) ==
    LET ps == sorted_pairs(known)
    IN  [i \in 1..Len(ps) |-> JDict(("fr" :> JStr(ps[i][1])) @@ ("de" :> JStr(ps[i][2])))]

\* save_known(known): the file it leaves.  open(KNOWN_PATH, "w") truncates the
\* file, and a write that raises leaves JSON text cut short.
save_known(known) ==
    IF save_succeeds(known) THEN FileItems(known_data(known)) ELSE FileCorrupt

-----------------------------------------------------------------------------
(* The inputs of the model: what the words directory and known_words.json  *)
(* may hold when the process starts.                                       *)

D2(k1, v1, k2, v2) == JDict((k1 :> v1) @@ (k2 :> v2))

RecChatKatze == D2("fr", JStr("chat"), "de", JStr("katze"))

RecChienHund ==
    JDict(("fr" :> JStr(" chien ")) @@ ("de" :> JStr("hund")) @@ ("pron" :> JStr("sh")))

RecChatKater == D2("french", JStr("chat"), "german", JStr("kater"))

RecBlankTarget == D2("fr", JStr("loup"), "de", JStr(" "))

RecFalsyAlias ==
    JDict(("fr" :> JStr("")) @@ ("fr_word" :> JStr("loup"))
          @@ ("de" :> JNull) @@ ("de_word" :> JStr("wolf")))

RecLatin ==
    JDict(("lemma" :> JStr("amo")) @@ ("translation_de" :> JStr(" lieben"))
          @@ ("pos" :> JStr("v"))
          @@ ("declension_example" :> D2("la", JStr("amo te"), "de", JNum(0))))

RecEmptyLemma ==
    JDict(("lemma" :> JStr("")) @@ ("fr" :> JStr("chat")) @@ ("de" :> JStr("katze")))

RecNumberField == D2("fr", JNum(7), "de", JStr("hund"))

ContentInvalid == [ok |-> FALSE]

ContentList(items) == [ok |-> TRUE, v |-> JList(items)]

ContentPool ==
    { ContentInvalid,
      [ok |-> TRUE, v |-> RecChatKatze],
      ContentList(<<RecChatKatze, RecChienHund>>),
      ContentList(<<RecChatKater, RecBlankTarget, RecFalsyAlias>>),
      ContentList(<<RecLatin, RecEmptyLemma, RecChatKatze>>),
      ContentList(<<RecChatKatze, JNum(5), RecChienHund>>),
      ContentList(<<RecNumberField, RecChatKatze>>) }

NamePool ==
    { "list1.json", "list2v1.json", "list10.json", "list01.json",
      "words.json", "latin.json", "notes.txt" }

\* a file that is no dataset is never opened: one content stands for all
ContentsFor(name) == IF endswith(name, ".json") THEN ContentPool ELSE {ContentInvalid}

Dirs ==
    UNION { {dir \in [names -> ContentPool] : \A n \in names : dir[n] \in ContentsFor(n)} :
            names \in {ns \in SUBSET NamePool : Cardinality(ns) <= MaxFiles} }

KnownFilePool ==
    { FileAbsent,
      FileCorrupt,
      FileItems(<<D2("fr", JStr("chien"), "de", JStr("hund")),
                  D2("fr", JNum(5), "de", JStr("x"))>>),
      FileItems(<<D2("fr", JStr("chat"), "de", JStr("katze")), JStr("chat")>>) }

NoResponse == [kind |-> "none"]

-----------------------------------------------------------------------------
(* load_vocab over the inputs of the model.  FileKeys and LoadedFile hold   *)
(* file_key and load_file for every name and content of the pools, so that *)
(* each is computed once.                                                  *)

FileKeys == [name \in NamePool |-> file_key(name)]

LoadedFile == [name \in NamePool, content \in ContentPool |-> load_file(name, content)]

\* list.sort(key=file_key): the keys are computed once, and the sort is
\* stable; here by insertion
RECURSIVE InsertByKey(_, _)
InsertByKey(sorted, key) ==
    IF Len(sorted) = 0 THEN <<key>>
    ELSE IF key_less(key, Head(sorted)) THEN <<key>> \o sorted
    ELSE <<Head(sorted)>> \o InsertByKey(Tail(sorted), key)

RECURSIVE SortKeys(_)
SortKeys(keys) ==
    IF Len(keys) = 0 THEN <<>>
    ELSE InsertByKey(SortKeys(SubSeq(keys, 1, Len(keys) - 1)), keys[Len(keys)])

NamesOf(keys) == [i \in 1..Len(keys) |-> keys[i].name]

SortByKey(names) == NamesOf(SortKeys([i \in 1..Len(names) |-> FileKeys[names[i]]]))

\* [f for f in os.listdir(WORDS_DIR) if f.endswith('.json')]
files_all(listing) == SelectSeq(listing, LAMBDA f : endswith(f, ".json"))

\* the `files` of load_vocab, from what os.listdir returned
files_to_load(listing) ==
    IF "latin.json" \in Range(files_all(listing))
    THEN <<"latin.json">>
    ELSE SortByKey(files_all(listing))

RECURSIVE load_files(_, _)
load_files(dir, fs) ==
    IF Len(fs) = 0 THEN <<>>
    ELSE LoadedFile[Head(fs), dir[Head(fs)]] \o load_files(dir, Tail(fs))

\* load_vocab(), for the directory `dir` listed by os.listdir as `listing`
load_vocab(dir, listing) == load_files(dir, files_to_load(listing))

\* it["num"] = idx of on_startup
with_num(it, idx) == [k \in DOMAIN it \cup {"num"} |-> IF k = "num" THEN idx ELSE it[k]]

\* assign_nums with enumerate's default start
assign_nums_from_zero(vocab) == [i \in 1..Len(vocab) |-> with_num(vocab[i], i - 1)]

\* for idx, it in enumerate(VOCAB, start=1): it["num"] = idx
assign_nums(vocab) == [i \in 1..Len(vocab) |-> with_num(vocab[i], i)]

\* what os.listdir may return for the directory: its names in any order
Listings(dir) ==
    {l \in [1..Cardinality(DOMAIN dir) -> DOMAIN dir] : Range(l) = DOMAIN dir}

-----------------------------------------------------------------------------
(* Startup.                                                                *)

InitWith(dirs, knownFiles) ==
    /\ phase = "boot"
    /\ words \in dirs
    /\ knownFile \in knownFiles
    /\ files = <<>>
    /\ VOCAB = <<>>
    /\ KNOWN = {}
    /\ pending = {}
    /\ resp = NoResponse
    /\ marked = {}
    /\ everMarked = {}
    /\ overlap = {}

\* on_startup
on_startup ==
    /\ phase = "boot"
    /\ \E listing \in Listings(words) :
          /\ files' = files_to_load(listing)
          /\ VOCAB' = assign_nums(load_files(words, files'))
    /\ KNOWN' = load_known(knownFile)
    /\ knownFile' = file_after_load(knownFile)
    /\ phase' = "running"
    /\ UNCHANGED <<words, pending, resp, marked, everMarked, overlap>>

InitLoad == InitWith(Dirs, {FileAbsent})

NextLoad == on_startup

SpecLoad == InitLoad /\ [][NextLoad]_vars

-----------------------------------------------------------------------------
(* GET /test.                                                              *)

IsDelimiter(c) == c = "," \/ IsSpace(c)

\* [x for x in re.split(r"[,\s]+", text) if x], with `token` the piece being read
RECURSIVE split_tokens(_, _)
split_tokens(text, token) ==
    LET done == IF token = "" THEN <<>> ELSE <<token>>
    IN  IF Len(text) = 0 THEN done
        ELSE IF IsDelimiter(Head(text)) THEN done \o split_tokens(Tail(text), "")
        ELSE split_tokens(Tail(text), token \o Head(text))

Unsigned(token) ==
    IF Len(token) > 0 /\ Head(token) = "-" THEN Tail(token) ELSE token

\* whether int(token) returns: an optional sign, then digits
int_parses(token) == AllDigits(Unsigned(token))

\* int(token)
int_value(token) ==
    IF Head(token) = "-" THEN 0 - DigitsValue(Unsigned(token)) ELSE DigitsValue(token)

\* ex_nums with each unparseable token skipped by itself
ex_nums_skipping(text) ==
    LET tokens == split_tokens(strip(text), "")
    IN  {int_value(tokens[i]) : i \in {j \in 1..Len(tokens) : int_parses(tokens[j])}}

\* try: ex_nums = set(int(x) for x in re.split(...) if x)
\* except Exception: ex_nums = set()
ex_nums(text) ==
    LET tokens == split_tokens(strip(text), "")
    IN  IF \A i \in 1..Len(tokens) : int_parses(tokens[i])
        THEN {int_value(tokens[i]) : i \in 1..Len(tokens)}
        ELSE {}

\* the exclude parameter: None, or a string
NoExclude == [given |-> FALSE]
Exclude(text) == [given |-> TRUE, s |-> text]

ExcludeChars == {"1", "2", "3", ",", " ", "x"}

RECURSIVE StringsUpTo(_)
StringsUpTo(n) ==
    IF n = 0 THEN {""}
    ELSE StringsUpTo(n - 1) \cup {str \o c : str \in StringsUpTo(n - 1), c \in ExcludeChars}

ExcludeStrings == StringsUpTo(MaxExcludeLen)

ExcludePool == {NoExclude} \cup {Exclude(str) : str \in ExcludeStrings}

\* ex_nums for every exclude string of the model, each computed once
ExNums == [str \in ExcludeStrings |-> ex_nums(str)]

\* unknown_items with the filter on KNOWN left out
unknown_unfiltered(vocab, known) == vocab

\* unknown_items with the known set keyed by the source term alone
unknown_by_source(vocab, known) ==
    SelectSeq(vocab, LAMBDA it : it.fr \notin {p[1] : p \in known})

\* unknown = [it for it in VOCAB if (it["fr"], it["de"]) not in KNOWN]
unknown_items(vocab, known) ==
    SelectSeq(vocab, LAMBDA it : <<it.fr, it.de>> \notin known)

\* candidates with the filter on the exclude ids left out
candidates_not_excluding(vocab, known, exclude) == unknown_items(vocab, known)

\* `unknown` when the handler reaches `if not unknown`
candidates(vocab, known, exclude) ==
    LET unknown == unknown_items(vocab, known)
    IN  IF exclude.given /\ exclude.s # ""
        THEN IF ExNums[exclude.s] # {}
             THEN SelectSeq(unknown, LAMBDA it : it.num \notin ExNums[exclude.s])
             ELSE unknown
        ELSE unknown

\* choice.get(key, "")
GetOr(choice, key) == IF key \in DOMAIN choice THEN choice[key] ELSE ""

\* the payload of a 200 response
test_payload(direction, choice) ==
    [question |-> IF direction = "fr-de" THEN choice.fr ELSE choice.de,
     answer |-> IF direction = "fr-de" THEN choice.de ELSE choice.fr,
     pron |-> GetOr(choice, "pron"),
     fr |-> choice.fr,
     de |-> choice.de,
     num |-> choice.num,
     pos |-> GetOr(choice, "pos"),
     pp |-> GetOr(choice, "pp"),
     ex_la |-> GetOr(choice, "ex_la"),
     ex_de |-> GetOr(choice, "ex_de"),
     dataset |-> GetOr(choice, "dataset")]

Directions == {"fr-de", "de-fr", "en-de"}

ValidDirection(direction) == direction \in {"fr-de", "de-fr"}

TestResponse(direction, exclude, status, body) ==
    [kind |-> "test", direction |-> direction, exclude |-> exclude,
     status |-> status, body |-> body]

NoBody == [detail |-> "error"]

\* test(direction, exclude); random.choice is any item of the pool
test ==
    /\ phase = "running"
    /\ \E direction \in Directions, exclude \in ExcludePool :
          IF ~ValidDirection(direction)
          THEN resp' = TestResponse(direction, exclude, 400, NoBody)
          ELSE LET pool == candidates(VOCAB, KNOWN, exclude)
               IN  IF Len(pool) = 0
                   THEN resp' = TestResponse(direction, exclude, 404, NoBody)
                   ELSE \E i \in 1..Len(pool) :
                           resp' = TestResponse(direction, exclude, 200,
                                                test_payload(direction, pool[i]))
    /\ UNCHANGED <<phase, words, knownFile, files, VOCAB, KNOWN, pending,
                   marked, everMarked, overlap>>

-----------------------------------------------------------------------------
(* POST /mark_known and POST /reset_known.                                 *)

\* known_add that replaces the set by the new pair
known_replaced(known, pair) == {pair}

\* KNOWN.add((body.fr, body.de))
known_add(known, pair) == known \cup {pair}

\* The handler mark_known(body).  It is an `async def` with no await in it:
\* the event loop runs it from its first line to its last with no other
\* handler in between.  save_known may raise after KNOWN has changed.
mark_known(pair) ==
    /\ KNOWN' = known_add(KNOWN, pair)
    /\ knownFile' = save_known(KNOWN')
    /\ IF save_succeeds(KNOWN')
       THEN /\ resp' = [kind |-> "mark_known", pair |-> pair, status |-> 200]
            /\ marked' = marked \cup {pair}
            /\ everMarked' = everMarked \cup {pair}
       ELSE /\ resp' = [kind |-> "mark_known", pair |-> pair, status |-> 500]
            /\ UNCHANGED <<marked, everMarked>>
    /\ UNCHANGED <<phase, words, files, VOCAB>>

\* The handler reset_known(), as atomic as mark_known
reset_known ==
    /\ KNOWN' = {}
    /\ knownFile' = save_known(KNOWN')
    /\ resp' = [kind |-> "reset_known", status |-> 200]
    /\ marked' = {}
    /\ UNCHANGED <<phase, words, files, VOCAB, everMarked>>

PairChatKatze == <<"chat", "katze">>
PairChatKater == <<"chat", "kater">>
PairSurrogate == <<"~", "x">>

MarkRequest(pair) == [kind |-> "mark_known", pair |-> pair]
ResetRequest == [kind |-> "reset_known"]

-----------------------------------------------------------------------------
(* The quiz, its requests served one after the other.                      *)

DirFrde ==
    ("list1.json" :> ContentList(<<RecChatKatze, RecChienHund>>))
    @@ ("list2v1.json" :> ContentList(<<RecChatKater, RecBlankTarget, RecFalsyAlias>>))

DirLatin ==
    ("latin.json" :> ContentList(<<RecLatin, RecEmptyLemma, RecChatKatze>>))
    @@ ("list1.json" :> ContentList(<<RecChatKatze, RecChienHund>>))

DirEmpty == <<>>

QuizDirs == {DirFrde, DirLatin, DirEmpty}

QuizMarkPairs == {PairChatKatze, PairChatKater, <<"amo", "lieben">>}

\* The client of this specification sends a request once it has read the
\* response to its last one.
Idle == phase = "running" /\ resp = NoResponse

ServeTest == Idle /\ test

ServeMark ==
    /\ Idle
    /\ \E pair \in QuizMarkPairs : mark_known(pair)
    /\ UNCHANGED <<pending, overlap>>

ServeReset ==
    /\ Idle
    /\ reset_known
    /\ UNCHANGED <<pending, overlap>>

\* the client reads the response
Deliver ==
    /\ resp # NoResponse
    /\ resp' = NoResponse
    /\ UNCHANGED <<phase, words, knownFile, files, VOCAB, KNOWN, pending,
                   marked, everMarked, overlap>>

InitQuiz == InitWith(QuizDirs, {FileAbsent, FileItems(<<D2("fr", JStr("chien"), "de", JStr("hund"))>>)})

NextQuiz == on_startup \/ ServeTest \/ ServeMark \/ ServeReset \/ Deliver

SpecQuiz == InitQuiz /\ [][NextQuiz]_vars

-----------------------------------------------------------------------------
(* The known-pairs store under requests in flight together.  A request is  *)
(* received (its body read and validated) at any time; the event loop then *)
(* runs the handlers of the received requests one at a time, in any order. *)

StoreMarkPairs == {PairChatKatze, PairChatKater, PairSurrogate}

StoreRequests == {MarkRequest(pair) : pair \in StoreMarkPairs} \cup {ResetRequest}

Receive ==
    /\ phase = "running"
    /\ Cardinality(pending) < MaxInflight
    /\ \E req \in StoreRequests \ pending : pending' = pending \cup {req}
    /\ UNCHANGED <<phase, words, knownFile, files, VOCAB, KNOWN, resp,
                   marked, everMarked, overlap>>

\* the pairs of the other mark_known requests in flight
InFlightWith(req) == {r.pair : r \in {x \in pending \ {req} : x.kind = "mark_known"}}

HandleMark ==
    /\ phase = "running"
    /\ \E req \in pending :
          /\ req.kind = "mark_known"
          /\ mark_known(req.pair)
          /\ pending' = pending \ {req}
          /\ overlap' = IF save_succeeds(KNOWN')
                        THEN overlap \cup InFlightWith(req)
                        ELSE overlap

HandleReset ==
    /\ phase = "running"
    /\ ResetRequest \in pending
    /\ reset_known
    /\ pending' = pending \ {ResetRequest}
    /\ overlap' = {}

Init == InitWith({DirFrde}, KnownFilePool)

Next == on_startup \/ Receive \/ HandleMark \/ HandleReset

Spec == Init /\ [][Next]_vars

-----------------------------------------------------------------------------
(* Claims about GET /test, under SpecQuiz.                                 *)

Returned == resp.kind = "test" /\ resp.status = 200

ReturnedPair == <<resp.body.fr, resp.body.de>>

Asked == resp.kind = "test" /\ ValidDirection(resp.direction)

\* C1: a successful GET /test with a valid direction never returns an entry
\* whose (fr, de) pair is in KNOWN at the time of the request, whatever the
\* exclude parameter and whatever mark_known / reset_known requests came before.
C1_NeverReturnsKnown == Returned => ReturnedPair \notin KNOWN

C1_Witness ==
    /\ Returned
    /\ resp.exclude.given
    /\ marked # {}
    /\ \E i \in DOMAIN VOCAB : <<VOCAB[i].fr, VOCAB[i].de>> \in KNOWN

\* C2, as claimed: once mark_known(s, t) has completed, no later GET /test
\* response ever returns an entry whose pair is (s, t), after any sequence of
\* requests.
C2_NeverAgainAfterMark == Returned => ReturnedPair \notin everMarked

\* an entry that shares its source term with the pair and has another target
SharesSourceOnly(it, pair) == it.fr = pair[1] /\ it.de # pair[2]

\* C2, amended: once mark_known(s, t) has completed, no GET /test response
\* returns an entry whose pair is (s, t) until a reset_known request is
\* handled; an entry that shares only the source term s, and is itself not
\* known, is still in the pool of a request with no exclude.
C2_NotReturnedUntilReset ==
    /\ Returned => ReturnedPair \notin marked
    /\ \A pair \in marked : \A i \in DOMAIN VOCAB :
          (SharesSourceOnly(VOCAB[i], pair) /\ <<VOCAB[i].fr, VOCAB[i].de>> \notin KNOWN)
              => VOCAB[i] \in Range(candidates(VOCAB, KNOWN, NoExclude))

C2_Witness ==
    /\ Returned
    /\ \E pair \in marked :
          /\ \E i \in DOMAIN VOCAB : <<VOCAB[i].fr, VOCAB[i].de>> = pair
          /\ resp.body.fr = pair[1]
          /\ resp.body.de # pair[2]

\* the exclude ids the handler parsed from the parameter
ParsedIds(exclude) == IF exclude.given THEN ExNums[exclude.s] ELSE {}

\* the entries that are not known and whose num is not among the ids
PoolOf(ids) ==
    {VOCAB[i] : i \in {j \in DOMAIN VOCAB :
                          /\ <<VOCAB[j].fr, VOCAB[j].de>> \notin KNOWN
                          /\ VOCAB[j].num \notin ids}}

IsEntry(body, it) == body.num = it.num /\ body.fr = it.fr /\ body.de = it.de

\* C3: for a valid direction GET /test answers 404 if and only if the pool
\* (the entries not in KNOWN whose num is not among the parsed exclude ids) is
\* empty, and otherwise returns an entry of that pool.
C3_NotFoundIffPoolEmpty ==
    Asked =>
        /\ resp.status \in {200, 404}
        /\ resp.status = 404 <=> PoolOf(ParsedIds(resp.exclude)) = {}
        /\ resp.status = 200 =>
              \E it \in PoolOf(ParsedIds(resp.exclude)) : IsEntry(resp.body, it)

\* the exclude ids name every entry that is not known
C3_Witness ==
    /\ Asked
    /\ resp.status = 404
    /\ PoolOf({}) # {}
    /\ {it.num : it \in PoolOf({})} \subseteq ParsedIds(resp.exclude)

\* the tokens of every exclude string of the model, each split once
TokensOf == [str \in ExcludeStrings |-> split_tokens(strip(str), "")]

ParseableIds(str) ==
    {int_value(TokensOf[str][i]) : i \in {j \in 1..Len(TokensOf[str]) : int_parses(TokensOf[str][j])}}

HasUnparseable(str) == \E i \in 1..Len(TokensOf[str]) : ~int_parses(TokensOf[str][i])

MixedTokens(str) == HasUnparseable(str) /\ ParseableIds(str) # {}

\* C4, as claimed: when exclude holds parseable and unparseable tokens, the
\* request does not fail because of them and every entry whose num is one of
\* the parseable tokens is removed from the pool.
C4_ParseableTokensStillExcluded ==
    (Asked /\ resp.exclude.given /\ MixedTokens(resp.exclude.s)) =>
        /\ resp.status \in {200, 404}
        /\ resp.status = 200 => resp.body.num \notin ParseableIds(resp.exclude.s)

\* C4, amended: when exclude holds an unparseable token, the request does not
\* fail because of it, and the whole parameter is dropped: no entry is removed
\* from the pool on account of exclude, the parseable tokens included.
C4_UnparseableTokenDropsExclude ==
    (Asked /\ resp.exclude.given /\ HasUnparseable(resp.exclude.s)) =>
        /\ resp.status \in {200, 404}
        /\ resp.status = 404 <=> PoolOf({}) = {}
        /\ resp.status = 200 => \E it \in PoolOf({}) : IsEntry(resp.body, it)

C4_Witness ==
    /\ Returned
    /\ resp.exclude.given
    /\ MixedTokens(resp.exclude.s)
    /\ resp.body.num \in ParseableIds(resp.exclude.s)

-----------------------------------------------------------------------------
(* Claims about the known-pairs store, under Spec.                         *)

Stored == load_known(knownFile)

\* C5: after every completed mark_known or reset_known request the persisted
\* file holds exactly the in-memory KNOWN set: load_known() of the file that
\* save_known(KNOWN) wrote is KNOWN, for every set of string pairs.
C5_FileHoldsKnown ==
    resp.kind \in {"mark_known", "reset_known"} => Stored = KNOWN

MarkSucceeded == resp.kind = "mark_known" /\ resp.status = 200

\* the request handled last succeeded, was in flight while the mark_known of
\* another pair ran, and that one succeeded too
RacedMarksCompleted ==
    /\ MarkSucceeded
    /\ resp.pair \in overlap
    /\ marked \ {resp.pair} # {}

-----------------------------------------------------------------------------
(* Claims about the loader, under SpecLoad.                                *)

Loaded == phase = "running"

\* C7: after startup the num values are exactly 1..N, each entry's num its
\* 1-based position in VOCAB, so that a dropped record takes no id; and
\* loading the same files again, in whatever order the directory lists them,
\* gives every entry the same id.
C7_NumsArePositions ==
    Loaded =>
        /\ \A i \in DOMAIN VOCAB : VOCAB[i].num = i
        /\ {VOCAB[i].num : i \in DOMAIN VOCAB} = 1..Len(VOCAB)
        /\ \A listing \in Listings(words) : assign_nums(load_vocab(words, listing)) = VOCAB

IsList(content) == content.ok /\ content.v.t = "list"

\* a file was read whose list holds more items than it gave entries, and a
\* later file gave entries
C7_Witness ==
    /\ Loaded
    /\ Len(files) >= 2
    /\ IsList(words[files[1]])
    /\ Len(LoadedFile[files[1], words[files[1]]]) \in 1..(Len(words[files[1]].v.items) - 1)
    /\ Len(VOCAB) > Len(LoadedFile[files[1], words[files[1]]])

\* whether file a comes before file b: by the first integer in the name,
\* compared as a number; a name with no integer after every name with one;
\* equal integers, or no integer in either, by the names
ClaimedBefore(a, b) ==
    LET da == FirstDigits(a)
        db == FirstDigits(b)
    IN  IF da # "" /\ db # ""
        THEN \/ DigitsValue(da) < DigitsValue(db)
             \/ DigitsValue(da) = DigitsValue(db) /\ StrLess(a, b)
        ELSE IF da # "" THEN TRUE
        ELSE IF db # "" THEN FALSE
        ELSE StrLess(a, b)

ClaimedOrder == [a \in NamePool, b \in NamePool |-> ClaimedBefore(a, b)]

JsonNames == {name \in DOMAIN words : endswith(name, ".json")}

\* C8: load_vocab reads latin.json alone when that file is among the .json
\* files of the directory; otherwise every .json file, once, in the order of
\* the first integer in the file name, names with no integer last, ties by
\* file name.
C8_FilesReadInOrder ==
    Loaded =>
        IF "latin.json" \in JsonNames
        THEN files = <<"latin.json">>
        ELSE /\ Range(files) = JsonNames
             /\ Len(files) = Cardinality(JsonNames)
             /\ \A i \in DOMAIN files : \A j \in DOMAIN files :
                   i < j => ClaimedOrder[files[i], files[j]]

C8_Witness ==
    /\ Loaded
    /\ files = <<"list1.json", "list2v1.json", "list10.json">>
    /\ "notes.txt" \notin DOMAIN words

\* whether loading the file fails: it cannot be read or parsed, it holds no
\* list, or one of its records raises
FileFails(fname, content) ==
    \/ ~IsList(content)
    \/ \E i \in 1..Len(content.v.items) : normalise(fname, content.v.items[i]).raised

RECURSIVE EntriesOf(_, _)
EntriesOf(fname, items) ==
    IF Len(items) = 0 THEN <<>>
    ELSE normalise(fname, Head(items)).out \o EntriesOf(fname, Tail(items))

\* what the file gives when a file that fails is skipped entirely
ClaimedFile ==
    [name \in NamePool, content \in ContentPool |->
        IF FileFails(name, content) THEN <<>> ELSE EntriesOf(name, content.v.items)]

RECURSIVE ClaimedFiles(_, _)
ClaimedFiles(dir, fs) ==
    IF Len(fs) = 0 THEN <<>>
    ELSE ClaimedFile[Head(fs), dir[Head(fs)]] \o ClaimedFiles(dir, Tail(fs))

\* C9: a dataset file whose loading fails is skipped entirely, it gives no
\* entry, and every entry of every other file is loaded, in order.
C9_FailedFileGivesNothing ==
    Loaded => VOCAB = assign_nums(ClaimedFiles(words, files))

FieldsLatin(it) == "lemma" \in DOMAIN it.kv \/ "translation_de" \in DOMAIN it.kv

\* source, target and dataset of the entry a record gives under a schema, if
\* it gives one: source and target trimmed, and both non-empty
ClaimedEntry(it, latin) ==
    LET source == IF latin THEN field_of(it, "lemma") ELSE fr_of(it)
        target == IF latin THEN field_of(it, "translation_de") ELSE de_of(it)
    IN  IF strip(source.s) # "" /\ strip(target.s) # ""
        THEN << [fr |-> strip(source.s), de |-> strip(target.s),
                 dataset |-> IF latin THEN "latin" ELSE "frde"] >>
        ELSE <<>>

Core(out) == [i \in 1..Len(out) |-> [fr |-> out[i].fr, de |-> out[i].de, dataset |-> out[i].dataset]]

RecordPool == UNION {Range(content.v.items) : content \in {c \in ContentPool : IsList(c)}}

\* the records of the model's files that are dicts and do not raise
PlainRecords(fname, content) ==
    {it \in Range(content.v.items) : it.t = "dict" /\ ~normalise(fname, it).raised}

\* per file name and record: the record gives what the schema chosen by its
\* fields alone gives
ByFieldsAlone ==
    [name \in NamePool, it \in RecordPool |->
        (it.t = "dict" /\ ~normalise(name, it).raised)
            => Core(normalise(name, it).out) = ClaimedEntry(it, FieldsLatin(it))]

\* per file name and record: the record gives what the schema chosen by the
\* file name or its fields gives
ByFileOrFields ==
    [name \in NamePool, it \in RecordPool |->
        (it.t = "dict" /\ ~normalise(name, it).raised)
            => Core(normalise(name, it).out)
                 = ClaimedEntry(it, name = "latin.json" \/ FieldsLatin(it))]

ReadRecords == {<<files[i], it>> : i \in DOMAIN files, it \in RecordPool}

RecordsRead ==
    {r \in ReadRecords : IsList(words[r[1]]) /\ r[2] \in Range(words[r[1]].v.items)}

\* C10, as claimed: for every record of every loaded file the schema is
\* decided by the record's fields alone: Latin if and only if it carries
\* lemma or translation_de, FR-DE otherwise, and the record is kept whenever
\* its source and target are non-empty after trimming.
C10_SchemaByFieldsAlone ==
    Loaded => \A r \in RecordsRead : ByFieldsAlone[r[1], r[2]]

\* C10, amended: every record of latin.json is read with the Latin schema,
\* whatever its fields; a record of another file is read with the Latin
\* schema if and only if it carries lemma or translation_de, and with the
\* FR-DE schema otherwise; it is kept when its source and target are
\* non-empty after trimming.
C10_SchemaByFileOrFields ==
    Loaded => \A r \in RecordsRead : ByFileOrFields[r[1], r[2]]

\* latin.json was read and holds a record with fr and de and neither lemma
\* nor translation_de, and that record gave no entry
C10_Witness ==
    /\ Loaded
    /\ files = <<"latin.json">>
    /\ \E r \in RecordsRead :
          /\ r[2].t = "dict"
          /\ ~FieldsLatin(r[2])
          /\ ClaimedEntry(r[2], FALSE) # <<>>
          /\ \A i \in DOMAIN VOCAB : VOCAB[i].dataset = "latin"
    /\ Len(VOCAB) > 0

====
